---- MODULE Spec2Model ----
(***************************************************************************)
(* Model of src/inspection_tool.py: the ObjectDetectionApp window (load    *)
(* and detect handlers, the scene it renders into) and the                 *)
(* InteractiveBoundingBox overlays with their hover handlers.              *)
(*                                                                         *)
(* The program is single-threaded and event-driven: every handler runs to  *)
(* completion (or to an uncaught exception) before the next event is       *)
(* dispatched, so each handler is one action.                              *)
(***************************************************************************)
EXTENDS Integers, Sequences, FiniteSets, TLC

VARIABLES
    image,            \* self.image: a decoded BGR buffer, or None
    detectionResults, \* self.detectionResults: rows <<x1,y1,x2,y2,conf,class_id>>
    detectEnabled,    \* self.detectButton.isEnabled()
    status,           \* message shown by self.statusBar
    scene,            \* items of self.scene, in insertion order
    pixmapItem,       \* self.pixmapItem: None or the last pixmap item created
    viewFit,          \* size of the item self.graphicsView was last fitted to
    alive,            \* the process is running (no uncaught exception aborted it)
    lastOp,           \* trace: the handler that ran last and what it did
    loadedValid,      \* history: some loadImage ran to its end with a decoded image
    loadConfirmed,    \* history: some loadImage got a non-empty file path
    firstRun          \* history: application state right after the latest
                      \* completed detection, if no file was loaded since

vars == <<image, detectionResults, detectEnabled, status, scene, pixmapItem,
          viewFit, alive, lastOp, loadedValid, loadConfirmed, firstRun>>

\* Python's None, as a value comparable with the records it stands in for
None == [none |-> TRUE]

-----------------------------------------------------------------------------
(* Bounds and input domains *)

\* longest detection list the detector returns in the model
MaxDet == 2

\* the detector stub of SpecStub returns class indices in -IdxSpan..IdxSpan
IdxSpan == 82

RECURSIVE SeqsUpTo(_, _)
SeqsUpTo(S, n) ==
    IF n = 0 THEN {<<>>}
    ELSE LET shorter == SeqsUpTo(S, n - 1)
         IN  shorter \cup {Append(s, e) : s \in {t \in shorter : Len(t) = n - 1}, e \in S}

\* files the dialog can return; "" is a cancelled dialog
ValidFiles == {"a.png", "b.jpg"}
BadFiles == {"corrupt.png"}
FilePaths == ValidFiles \cup BadFiles \cup {""}

Box1 == <<10, 30, 110, 230>>
Box2 == <<5, 25, 50, 60>>

\* a row of boxes.data: corners, confidence (in 1/10000), class index
Det(b, conf, class_id) == <<b[1], b[2], b[3], b[4], conf, class_id>>

\* rows the pretrained detector can return: class indices are never negative
Detections ==
    { Det(Box1, 8675, 2), Det(Box2, 1250, 79), Det(Box1, 1250, 80) }

DetectorOutputs == SeqsUpTo(Detections, MaxDet)

\* rows of an arbitrary stub detector: any integer class index of the range
StubDetections == { Det(Box1, 8675, c) : c \in (0 - IdxSpan)..IdxSpan }

StubOutputs == {<<>>} \cup { <<d>> : d \in StubDetections }

-----------------------------------------------------------------------------
(* Module-level data *)

COCO_CLASSES == <<
    "person", "bicycle", "car", "motorcycle", "airplane", "bus", "train", "truck", "boat",
    "traffic light", "fire hydrant", "stop sign", "parking meter", "bench", "bird", "cat",
    "dog", "horse", "sheep", "cow", "elephant", "bear", "zebra", "giraffe", "backpack",
    "umbrella", "handbag", "tie", "suitcase", "frisbee", "skis", "snowboard", "sports ball",
    "kite", "baseball bat", "baseball glove", "skateboard", "surfboard", "tennis racket",
    "bottle", "wine glass", "cup", "fork", "knife", "spoon", "bowl", "banana", "apple",
    "sandwich", "orange", "broccoli", "carrot", "hot dog", "pizza", "donut", "cake",
    "chair", "couch", "potted plant", "bed", "dining table", "toilet", "TV", "laptop",
    "mouse", "remote", "keyboard", "cell phone", "microwave", "oven", "toaster", "sink",
    "refrigerator", "book", "clock", "vase", "scissors", "teddy bear", "hair drier",
    "toothbrush" >>

Red == <<255, 0, 0>>
Green == <<0, 255, 0>>

MsgReady == "Ready"
MsgLoaded == "Image Loaded Successfully"
MsgDetecting == "Detecting Objects..."
MsgComplete == "Detection Complete"

-----------------------------------------------------------------------------
(* Library calls, modelled by what they do *)

\* cv2.imread: a BGR buffer for a decodable file, None otherwise
Imread(filePath) ==
    IF filePath = "a.png" THEN [height |-> 1, width |-> 1, data |-> << <<10, 20, 30>> >>]
    ELSE IF filePath = "b.jpg" THEN [height |-> 1, width |-> 2,
                                      data |-> << <<1, 2, 3>>, <<4, 5, 6>> >>]
    ELSE None

CvtColor_NoCheck(img) ==
    IF img = None THEN [raised |-> FALSE, img |-> [height |-> 0, width |-> 0, data |-> <<>>]]
    ELSE [raised |-> FALSE,
          img |-> [img EXCEPT !.data = [i \in 1..Len(img.data) |->
                       <<img.data[i][3], img.data[i][2], img.data[i][1]>>]]]

\* cv2.cvtColor(img, COLOR_BGR2RGB): swaps the channels; raises cv2.error on None
CvtColor(img) ==
    IF img = None THEN [raised |-> TRUE, img |-> None]
    ELSE [raised |-> FALSE,
          img |-> [img EXCEPT !.data = [i \in 1..Len(img.data) |->
                       <<img.data[i][3], img.data[i][2], img.data[i][1]>>]]]

\* Python list indexing: 0-based, negative indices count from the end
IndexError == "<IndexError>"
PyIndex(list, i) ==
    IF 0 <= i /\ i < Len(list) THEN list[i + 1]
    ELSE IF 0 - Len(list) <= i /\ i < 0 THEN list[Len(list) + i + 1]
    ELSE IndexError

TwoDigits(n) == IF n < 10 THEN "0" \o ToString(n) ELSE ToString(n)

\* format(conf, ".2f") for conf given in 1/10000: nearest hundredth, an exact
\* tie going to the even digit
Format2f(conf) ==
    LET q == conf \div 100
        r == conf % 100
        h == IF r > 50 \/ (r = 50 /\ q % 2 = 1) THEN q + 1 ELSE q
    IN  ToString(h \div 100) \o "." \o TwoDigits(h % 100)

-----------------------------------------------------------------------------
(* Scene items *)

QGraphicsPixmapItem(pixmap) == [kind |-> "pixmap", pixmap |-> pixmap]

QGraphicsTextItem(text) == [kind |-> "text", text |-> text, pos |-> <<0, 0>>, visible |-> TRUE]

SetPos(item, x, y) == [item EXCEPT !.pos = <<x, y>>]

Hide_Noop(item) == item

Hide(item) == [item EXCEPT !.visible = FALSE]

Show(item) == [item EXCEPT !.visible = TRUE]

QRectF(x, y, w, h) == [x |-> x, y |-> y, w |-> w, h |-> h]

\* InteractiveBoundingBox.__init__: builds the hidden label, adds it to the
\* scene and returns the rectangle item (which the caller adds)
InteractiveBoundingBox(rect, object_name, confidence, sc) ==
    LET textItem == Hide(SetPos(
                       QGraphicsTextItem(object_name \o " (" \o Format2f(confidence) \o ")"),
                       rect.x + 5, rect.y - 22))
        sc1 == Append(sc, textItem)
    IN  [scene |-> sc1,
         item |-> [kind |-> "rect", rect |-> rect, object_name |-> object_name,
                   confidence |-> confidence, pen |-> Red, textItem |-> Len(sc1)]]

\* the display name of a class index
ObjectName(class_id) ==
    IF class_id < Len(COCO_CLASSES) THEN PyIndex(COCO_CLASSES, class_id)
    ELSE "Unknown " \o ToString(class_id)

\* drawBoundingBoxes: one label and one rectangle per row, in list order; an
\* IndexError of the table lookup leaves the loop with what was drawn so far
RECURSIVE DrawBoundingBoxes(_, _)
DrawBoundingBoxes(sc, boxes) ==
    IF boxes = <<>> THEN [raised |-> FALSE, scene |-> sc]
    ELSE LET box == Head(boxes)
             rect == QRectF(box[1], box[2], box[3] - box[1], box[4] - box[2])
             object_name == ObjectName(box[6])
         IN  IF object_name = IndexError THEN [raised |-> TRUE, scene |-> sc]
             ELSE LET b == InteractiveBoundingBox(rect, object_name, box[5], sc)
                  IN  DrawBoundingBoxes(Append(b.scene, b.item), Tail(boxes))

SceneClear_Keep(sc, pix) == sc

\* "if self.pixmapItem: self.scene.clear()"
SceneClear(sc, pix) == IF pix # None THEN <<>> ELSE sc

\* displayImage: the scene, pixmap item and view fit it leaves behind, whether
\* it raised, and the scene at the moment drawBoundingBoxes was entered
DisplayImage(img, draw_bboxes, sc, pix, fit, boxes) ==
    LET rgb == CvtColor(img)
    IN  IF rgb.raised
        THEN [raised |-> TRUE, scene |-> sc, pixmapItem |-> pix, viewFit |-> fit,
              sceneAtDraw |-> <<>>]
        ELSE LET pixmap == rgb.img
                 item == QGraphicsPixmapItem(pixmap)
                 sc2 == Append(SceneClear(sc, pix), item)
                 drawn == IF draw_bboxes THEN DrawBoundingBoxes(sc2, boxes)
                          ELSE [raised |-> FALSE, scene |-> sc2]
             IN  [raised |-> drawn.raised, scene |-> drawn.scene, pixmapItem |-> item,
                  viewFit |-> IF drawn.raised THEN fit
                              ELSE [width |-> pixmap.width, height |-> pixmap.height],
                  sceneAtDraw |-> IF draw_bboxes THEN sc2 ELSE <<>>]

-----------------------------------------------------------------------------
(* Trace records *)

NoCall == <<>>
NoRun == [valid |-> FALSE, results |-> <<>>, state |-> None]

Op(op, outcome, arg, calls, sceneAtDraw) ==
    [op |-> op, outcome |-> outcome, arg |-> arg, modelCalls |-> calls,
     sceneAtDraw |-> sceneAtDraw]

AppState(img, res, en, st, sc) ==
    [image |-> img, detectionResults |-> res, detectEnabled |-> en, status |-> st,
     scene |-> sc]

-----------------------------------------------------------------------------
(* Initial state: ObjectDetectionApp.__init__ and initUI *)

InitDetectEnabled_On == TRUE

\* self.detectButton.setEnabled(False)
InitDetectEnabled == FALSE

Init ==
    /\ image = None
    /\ detectionResults = <<>>
    /\ detectEnabled = InitDetectEnabled
    /\ status = MsgReady
    /\ scene = <<>>
    /\ pixmapItem = None
    /\ viewFit = None
    /\ alive = TRUE
    /\ lastOp = Op("init", "ok", None, NoCall, <<>>)
    /\ loadedValid = FALSE
    /\ loadConfirmed = FALSE
    /\ firstRun = NoRun

-----------------------------------------------------------------------------
(* Handlers *)

FilePathConfirmed_Always(filePath) == TRUE

\* "if filePath:" - an empty path is a cancelled dialog
FilePathConfirmed(filePath) == filePath # ""

LoadedImage_KeepOld(old, filePath) ==
    IF Imread(filePath) = None THEN old ELSE Imread(filePath)

\* "self.image = cv2.imread(filePath)": the result is stored unchecked
LoadedImage(old, filePath) == Imread(filePath)

\* An exception that leaves a slot: the binding aborts the process, unless an
\* exception hook installed by the host returns control to the event loop
UncaughtException == alive' \in BOOLEAN

\* loadImage, with the path the file dialog returned
LoadImage(filePath) ==
    /\ alive
    /\ IF ~FilePathConfirmed(filePath)
       THEN /\ lastOp' = Op("loadImage", "cancelled", filePath, NoCall, <<>>)
            /\ UNCHANGED <<image, detectionResults, detectEnabled, status, scene,
                           pixmapItem, viewFit, alive, loadedValid, loadConfirmed,
                           firstRun>>
       ELSE LET img == LoadedImage(image, filePath)
                d == DisplayImage(img, FALSE, scene, pixmapItem, viewFit, detectionResults)
            IN  /\ image' = img
                /\ scene' = d.scene
                /\ pixmapItem' = d.pixmapItem
                /\ viewFit' = d.viewFit
                /\ loadConfirmed' = TRUE
                /\ firstRun' = NoRun
                /\ UNCHANGED detectionResults
                /\ IF d.raised
                   THEN /\ UncaughtException
                        /\ lastOp' = Op("loadImage", "raised", filePath, NoCall, <<>>)
                        /\ UNCHANGED <<detectEnabled, status, loadedValid>>
                   ELSE /\ detectEnabled' = TRUE
                        /\ status' = MsgLoaded
                        /\ loadedValid' = (loadedValid \/ img # None)
                        /\ lastOp' = Op("loadImage", "ok", filePath, NoCall, <<>>)
                        /\ UNCHANGED alive

ImageIsNone_Never(img) == FALSE

\* "if self.image is None: return"
ImageIsNone(img) == img = None

\* detectObjects, with the rows the detector returns for the stored image.
\* The slot runs on a click of the enabled button and on a direct call.
DetectObjects(results) ==
    /\ alive
    /\ IF ImageIsNone(image)
       THEN /\ lastOp' = Op("detectObjects", "guard", None, NoCall, <<>>)
            /\ UNCHANGED <<image, detectionResults, detectEnabled, status, scene,
                           pixmapItem, viewFit, alive, loadedValid, loadConfirmed,
                           firstRun>>
       ELSE LET working == MsgDetecting
                how == [rerun |-> firstRun.valid /\ firstRun.results = results,
                        hovered |-> \E k \in 1..Len(scene) :
                                        scene[k].kind = "rect" /\ scene[k].pen = Green]
                calls == << [arg |-> image, status |-> working, returned |-> results] >>
                d == DisplayImage(image, TRUE, scene, pixmapItem, viewFit, results)
            IN  /\ detectionResults' = results
                /\ scene' = d.scene
                /\ pixmapItem' = d.pixmapItem
                /\ viewFit' = d.viewFit
                /\ UNCHANGED <<image, detectEnabled, loadedValid, loadConfirmed>>
                /\ IF d.raised
                   THEN /\ UncaughtException
                        /\ status' = working
                        /\ firstRun' = NoRun
                        /\ lastOp' = Op("detectObjects", "raised", how, calls, d.sceneAtDraw)
                   ELSE /\ status' = MsgComplete
                        /\ firstRun' = [valid |-> TRUE, results |-> results,
                                        state |-> AppState(image, results, detectEnabled,
                                                           MsgComplete, d.scene)]
                        /\ lastOp' = Op("detectObjects", "done", how, calls, d.sceneAtDraw)
                        /\ UNCHANGED alive

\* the scene after hoverEnterEvent of the rectangle at position k
SetHovered(sc, k) ==
    [sc EXCEPT ![k].pen = Green, ![sc[k].textItem] = Show(@)]

SetIdle_KeepLabel(sc, k) == [sc EXCEPT ![k].pen = Red]

\* the scene after hoverLeaveEvent of the rectangle at position k
SetIdle(sc, k) ==
    [sc EXCEPT ![k].pen = Red, ![sc[k].textItem] = Hide(@)]

IsRect(sc, k) == k \in 1..Len(sc) /\ sc[k].kind = "rect"

HoverEnterEvent(k) ==
    /\ alive
    /\ IsRect(scene, k)
    /\ scene' = SetHovered(scene, k)
    /\ lastOp' = Op("hoverEnterEvent", "ok", k, NoCall, <<>>)
    /\ UNCHANGED <<image, detectionResults, detectEnabled, status, pixmapItem, viewFit,
                   alive, loadedValid, loadConfirmed, firstRun>>

HoverLeaveEvent(k) ==
    /\ alive
    /\ IsRect(scene, k)
    /\ scene' = SetIdle(scene, k)
    /\ lastOp' = Op("hoverLeaveEvent", "ok", k, NoCall, <<>>)
    /\ UNCHANGED <<image, detectionResults, detectEnabled, status, pixmapItem, viewFit,
                   alive, loadedValid, loadConfirmed, firstRun>>

HoverEnter == \E k \in 1..Len(scene) : HoverEnterEvent(k)

HoverLeave == \E k \in 1..Len(scene) : HoverLeaveEvent(k)

Load == \E filePath \in FilePaths : LoadImage(filePath)

Detect == \E results \in DetectorOutputs : DetectObjects(results)

DetectStub == \E results \in StubOutputs : DetectObjects(results)

Next == Load \/ Detect \/ HoverEnter \/ HoverLeave

Spec == Init /\ [][Next]_vars

\* the same program with a detector stub that returns any class index
NextStub == Load \/ DetectStub \/ HoverEnter \/ HoverLeave

SpecStub == Init /\ [][NextStub]_vars

-----------------------------------------------------------------------------
(* Properties *)

Rects(sc) == {k \in 1..Len(sc) : sc[k].kind = "rect"}

Texts(sc) == {k \in 1..Len(sc) : sc[k].kind = "text"}

Pixmaps(sc) == {k \in 1..Len(sc) : sc[k].kind = "pixmap"}

IsLoadStep == lastOp'.op = "loadImage"

IsDetectStep == lastOp'.op = "detectObjects"

\* C1: the Detect button is enabled exactly when some earlier load ran to its
\* end with a decoded image: it is disabled in the initial state, enabled
\* after every load of a valid file, and nothing else enables it.
C1_DetectEnabledIffLoaded ==
    /\ detectEnabled <=> loadedValid
    /\ lastOp.op = "init" => ~detectEnabled
    /\ (lastOp.op = "loadImage" /\ lastOp.arg \in ValidFiles) => detectEnabled
    /\ (lastOp.op = "loadImage" /\ lastOp.arg \in BadFiles /\ ~loadedValid) => ~detectEnabled

C1_Witness ==
    /\ lastOp.op = "loadImage"
    /\ lastOp.arg \in ValidFiles
    /\ detectEnabled

\* C2: right after a detection run that returned N rows the scene holds one
\* image item, N rectangles and N labels and nothing else, each rectangle
\* owns its own label, every label is hidden, and the scene held only the
\* image when the overlays started being added.
C2_RenderCounts ==
    (lastOp.op = "detectObjects" /\ lastOp.outcome = "done") =>
        LET N == Len(lastOp.modelCalls[1].returned)
        IN  /\ Cardinality(Pixmaps(scene)) = 1
            /\ Cardinality(Rects(scene)) = N
            /\ Cardinality(Texts(scene)) = N
            /\ Len(scene) = 2 * N + 1
            /\ scene[1] = pixmapItem
            /\ \A k \in Rects(scene) : scene[k].textItem \in Texts(scene)
            /\ \A k, j \in Rects(scene) : scene[k].textItem = scene[j].textItem => k = j
            /\ \A t \in Texts(scene) : ~scene[t].visible
            /\ Len(lastOp.sceneAtDraw) = 1
            /\ lastOp.sceneAtDraw[1] = pixmapItem

C2_Witness ==
    /\ lastOp.op = "detectObjects"
    /\ lastOp.outcome = "done"
    /\ lastOp.arg.hovered
    /\ Len(detectionResults) = 2
    /\ Cardinality(Rects(scene)) = 2

C3_ExpectedName(i) ==
    IF 0 <= i /\ i <= 79 THEN COCO_CLASSES[i + 1] ELSE "Unknown " \o ToString(i)

\* C3: the display name of class index i is the table entry at i for
\* 0 <= i <= 79 and "Unknown i" for i >= 80 or i < 0, and no index makes the
\* lookup fail.
C3_NameByTable ==
    /\ ~(lastOp.op = "detectObjects" /\ lastOp.outcome = "raised")
    /\ \A j \in 1..Len(detectionResults) :
           2 * j + 1 <= Len(scene) =>
               scene[2 * j + 1].object_name = C3_ExpectedName(detectionResults[j][6])

\* C4: a load of a second image after a detection run on the first leaves no
\* rectangle and no label in the scene and none of the first image's rows in
\* the stored detection list; overlays appear again only by a detection run.
C4_SecondLoadClears ==
    [][ /\ (IsLoadStep /\ lastOp'.outcome = "ok" /\ firstRun.valid /\ image' # image) =>
              /\ Rects(scene') = {}
              /\ Texts(scene') = {}
              /\ \A j \in 1..Len(detectionResults) :
                     \A i \in 1..Len(detectionResults') :
                         detectionResults'[i] # detectionResults[j]
        /\ (Rects(scene) = {} /\ Rects(scene') # {}) => IsDetectStep
      ]_vars

Idle(sc, k) == sc[k].pen = Red /\ ~sc[sc[k].textItem].visible

Hovered(sc, k) == sc[k].pen = Green /\ sc[sc[k].textItem].visible

\* C5: every overlay is idle (red stroke, label hidden) or hovered (green
\* stroke, label shown); it is created idle, hoverEnterEvent makes it hovered,
\* hoverLeaveEvent puts it back exactly as it was created, and neither event
\* touches any other item.
C5_HoverMachine ==
    /\ [](\A k \in Rects(scene) : Idle(scene, k) \/ Hovered(scene, k))
    /\ [][ /\ (IsDetectStep /\ lastOp'.outcome = "done") =>
                 \A k \in Rects(scene') : Idle(scene', k)
           /\ lastOp'.op = "hoverEnterEvent" =>
                 LET k == lastOp'.arg
                 IN  /\ Hovered(scene', k)
                     /\ scene' = [scene EXCEPT ![k].pen = Green,
                                               ![scene[k].textItem].visible = TRUE]
           /\ lastOp'.op = "hoverLeaveEvent" =>
                 LET k == lastOp'.arg
                 IN  /\ Idle(scene', k)
                     /\ scene' = [scene EXCEPT ![k].pen = Red,
                                               ![scene[k].textItem].visible = FALSE]
                     /\ firstRun.valid =>
                            /\ scene'[k] = firstRun.state.scene[k]
                            /\ scene'[scene[k].textItem] =
                                   firstRun.state.scene[scene[k].textItem]
         ]_vars

C5_Witness ==
    /\ lastOp.op = "hoverLeaveEvent"
    /\ \E k, j \in Rects(scene) : Idle(scene, k) /\ Hovered(scene, j)

\* C6: a detection run that returns the same rows as the previous run on the
\* same loaded image, with any hovering in between, ends in the state the
\* previous run ended in: same image, rows, scene, status and button state.
C6_DetectIdempotent ==
    [][ (/\ IsDetectStep
         /\ lastOp'.outcome = "done"
         /\ firstRun.valid
         /\ firstRun.results = lastOp'.modelCalls[1].returned) =>
            AppState(image', detectionResults', detectEnabled', status', scene')
                = firstRun.state
      ]_vars

C6_Witness ==
    /\ lastOp.op = "detectObjects"
    /\ lastOp.outcome = "done"
    /\ lastOp.arg.rerun
    /\ lastOp.arg.hovered
    /\ Len(detectionResults) = 2

\* C7: a load whose dialog returned the empty path changes nothing: image,
\* detection list, scene with its hover states, button state and status stay.
C7_CancelledLoadNoop ==
    [][ (IsLoadStep /\ lastOp'.arg = "") =>
            /\ lastOp'.outcome = "cancelled"
            /\ UNCHANGED <<image, detectionResults, scene, detectEnabled, status,
                           pixmapItem, viewFit, alive>>
      ]_vars

C7_Witness ==
    /\ lastOp.op = "loadImage"
    /\ lastOp.arg = ""
    /\ image # None
    /\ \E k \in Rects(scene) : Hovered(scene, k)

\* C8: detectObjects without a stored buffer calls no detector and changes
\* nothing; with a buffer it shows the working message before the one
\* detector call on that buffer, stores the returned rows, renders the image
\* with one overlay per row, and ends with the completion message.
C8_DetectGuardAndRun ==
    [][ IsDetectStep =>
            IF image = None
            THEN /\ lastOp'.outcome = "guard"
                 /\ lastOp'.modelCalls = NoCall
                 /\ UNCHANGED <<image, detectionResults, scene, detectEnabled, status>>
            ELSE /\ lastOp'.outcome = "done"
                 /\ Len(lastOp'.modelCalls) = 1
                 /\ lastOp'.modelCalls[1].arg = image
                 /\ lastOp'.modelCalls[1].status = MsgDetecting
                 /\ detectionResults' = lastOp'.modelCalls[1].returned
                 /\ Len(scene') = 1 + 2 * Len(detectionResults')
                 /\ scene'[1].kind = "pixmap"
                 /\ scene'[1].pixmap.width = image.width
                 /\ Cardinality(Rects(scene')) = Len(detectionResults')
                 /\ status' = MsgComplete
                 /\ UNCHANGED <<image, detectEnabled>>
      ]_vars

C8_Witness ==
    /\ lastOp.op = "detectObjects"
    /\ lastOp.outcome = "guard"
    /\ Rects(scene) # {}
    /\ status = MsgComplete

\* C9 as stated: after every load with a confirmed file, decoded or not, the
\* Detect button is enabled.
C9_EnabledAfterAnyLoad ==
    (lastOp.op = "loadImage" /\ lastOp.arg # "") => detectEnabled

\* C9 amended: a load of an undecodable file stores the null buffer and
\* raises in the render before the button or the status is touched, so the
\* button, status, scene and detection list stay as they were; a load of a
\* decodable file enables the button.
C9_FailedLoadLeavesButton ==
    [][ /\ (IsLoadStep /\ lastOp'.arg \in BadFiles) =>
              /\ lastOp'.outcome = "raised"
              /\ image' = None
              /\ UNCHANGED <<detectEnabled, status, scene, pixmapItem, viewFit,
                             detectionResults>>
        /\ (IsLoadStep /\ lastOp'.arg \in ValidFiles) =>
              /\ lastOp'.outcome = "ok"
              /\ detectEnabled'
      ]_vars

C9_Witness ==
    /\ lastOp.op = "loadImage"
    /\ lastOp.outcome = "raised"
    /\ image = None
    /\ ~detectEnabled

\* C10 as stated: once a load with a confirmed file has run, detectObjects
\* passes the guard and calls the detector.
C10_GuardOnlyBeforeAnyLoad ==
    (lastOp.op = "detectObjects" /\ loadConfirmed) =>
        (lastOp.outcome # "guard" /\ lastOp.modelCalls # NoCall)

\* C10 amended: the guard fires exactly when the stored buffer is None, which
\* is so before any confirmed load and after every load whose decode failed;
\* past the guard the detector is called on the stored, decoded buffer.
C10_GuardIffNoneStored ==
    /\ [](~loadConfirmed => image = None)
    /\ [][ /\ IsDetectStep =>
                 /\ (lastOp'.outcome = "guard") <=> (image = None)
                 /\ lastOp'.outcome # "guard" =>
                        /\ lastOp'.modelCalls # NoCall
                        /\ lastOp'.modelCalls[1].arg = image
           /\ (IsLoadStep /\ lastOp'.arg # "") =>
                 /\ loadConfirmed'
                 /\ (image' = None) <=> (lastOp'.arg \in BadFiles)
         ]_vars

C10_Witness ==
    /\ lastOp.op = "detectObjects"
    /\ lastOp.outcome = "guard"
    /\ loadedValid
    /\ image = None

====
